---- MODULE Spec2Model ----
(***************************************************************************)
(* A model of server.py: an aiohttp application with four routes and a     *)
(* CORS middleware.  POST /api/generate validates the request, sends one   *)
(* submission POST to the remote generation API and then polls the job's   *)
(* status, at most PollCeiling times, one second apart.                    *)
(*                                                                         *)
(* Every inbound request is a coroutine on one event loop.  An action of   *)
(* the model is the code a coroutine runs between two suspension points    *)
(* (await), so the actions of different requests interleave exactly where  *)
(* the coroutines can.  The remote API is the environment: what it answers *)
(* is chosen with \E when the answer is handled.                           *)
(*                                                                         *)
(* Text built with f-strings is modelled as the sequence of its fragments. *)
(***************************************************************************)
EXTENDS Integers, Sequences, FiniteSets, TLC

\* ------------------------------------------------------------------ bounds

\* Number of inbound requests in one behaviour.
NumReqs == 2

\* Longest generated_images list the remote API returns.
MaxImages == 2

Reqs == 1..NumReqs

\* ------------------------------------------------------- program constants

\* A ceiling one beyond the code's: range(31).
PollCeilingLong == 30 + 1

\* A ceiling one short of the code's: range(29).
PollCeilingShort == 30 - 1

\* range(30): the poll ceiling.
PollCeiling == 30

\* The event loop's thread when no coroutine is running on it.
Free == 0

\* generation_id before the submission has returned one.
NoJob == 0

ART_STYLE_PROMPTS ==
    [pixel      |-> "16-bit pixel art style, retro gaming aesthetic, ...",
     anime      |-> "anime art style, manga-inspired, cel-shaded, ...",
     3d         |-> "3D rendered style, volumetric lighting, ...",
     minimalist |-> "minimalist design, clean lines, simple shapes, ...",
     cartoon    |-> "cartoon style, bold outlines, vibrant colors, ...",
     realistic  |-> "realistic digital painting, detailed textures, ..."]

\* The three headers the middleware sets, as (name, value) pairs.
CorsHeaders ==
    {<<"Access-Control-Allow-Origin", "*">>,
     <<"Access-Control-Allow-Methods", "GET, POST, OPTIONS">>,
     <<"Access-Control-Allow-Headers", "Content-Type">>}

\* The routes of the RouteTableDef, as (method, path) pairs.
Routes ==
    {<<"GET", "/">>, <<"GET", "/ping">>, <<"POST", "/api/test">>,
     <<"POST", "/api/generate">>}

\* ------------------------------------------------------------ JSON values

JStr(s) == [type |-> "str", val |-> s]
JNull == [type |-> "null", val |-> ""]
JTrue == [type |-> "bool", val |-> "true"]
JEmptyList == [type |-> "list", val |-> ""]

\* An object without members (also: a dict lacking every key looked up).
EmptyObj == [k \in {} |-> JNull]

\* A lookup that drops the generated name of a regeneration request.
GetUnlessRegenerating(data, key, default) ==
    IF key = "generatedName" /\ "isRegeneration" \in DOMAIN data THEN default
    ELSE IF key \in DOMAIN data THEN data[key] ELSE default

\* dict.get(key, default)
Get(data, key, default) == IF key \in DOMAIN data THEN data[key] ELSE default

\* Python truthiness of a JSON value: `not v`.
Falsy(v) ==
    \/ v.type = "null"
    \/ v.type = "str" /\ v.val = ""
    \/ v.type = "list"
    \/ v.type = "bool" /\ v.val = "false"

\* Values that cannot be a dict key (dict.get raises TypeError on them).
Unhashable(v) == v.type = "list"

\* ------------------------------------------------------ inbound requests

Methods == {"GET", "POST", "OPTIONS"}
Paths == {"/", "/ping", "/api/test", "/api/generate", "/nope"}

StyleValues ==
    {JStr(k) : k \in DOMAIN ART_STYLE_PROMPTS} \cup {JStr("vaporwave"), JEmptyList}

\* The values each member of a request object takes in the model.
Allowed(key) ==
    CASE key = "idea" -> {JStr(""), JStr("doge")}
      [] key = "generatedName" -> {JStr("Moon")}
      [] key = "isRegeneration" -> {JTrue}
      [] key = "artStyle" -> StyleValues

Keys == {"idea", "generatedName", "isRegeneration", "artStyle"}

JsonValues == UNION {Allowed(k) : k \in Keys}

\* The JSON objects a request body parses to: any subset of the members.
Objects ==
    {d \in UNION {[K -> JsonValues] : K \in SUBSET Keys} :
        \A k \in DOMAIN d : d[k] \in Allowed(k)}

\* A request body: not JSON at all, JSON that is no object, or an object.
Bodies ==
    {[parse |-> "invalid", data |-> EmptyObj],
     [parse |-> "array", data |-> EmptyObj]}
    \cup {[parse |-> "object", data |-> d] : d \in Objects}

NoBody == [parse |-> "none", data |-> EmptyObj]

\* -------------------------------------------------------------- responses

NoHeaders == {}

\* A response object.  raised: it left the handler as a raised
\* web.HTTPException instead of a returned value.
\* web.json_response(body, status=status)
JsonResponse(body, status) ==
    [status |-> status, ctype |-> "application/json", json |-> body,
     text |-> "", headers |-> NoHeaders, raised |-> FALSE]

\* web.Response(text=text, status=status, content_type=ctype)
TextResponse(text, status, ctype) ==
    [status |-> status, ctype |-> ctype, json |-> EmptyObj,
     text |-> text, headers |-> NoHeaders, raised |-> FALSE]

\* The router's answer for a request no route matches: aiohttp resolves it to
\* a system route whose handler raises HTTPNotFound or HTTPMethodNotAllowed.
HttpException(status, text) ==
    [status |-> status, ctype |-> "text/plain", json |-> EmptyObj,
     text |-> text, headers |-> NoHeaders, raised |-> TRUE]

\* web.Response(): status 200, no body.
EmptyResponse == TextResponse("", 200, "application/octet-stream")

\* No response sent yet.
NoResponse == TextResponse("", 0, "")

\* --------------------------------------------------- router and middleware

\* app.add_routes(routes): the handler the router resolves a request to.
Resolve(method, path) ==
    IF <<method, path>> \in Routes THEN path
    ELSE IF \E m \in Methods : <<m, path>> \in Routes THEN "405"
    ELSE "404"

\* A middleware without the OPTIONS branch: every request goes to its handler.
NeverSkips(method) == FALSE

\* middleware_handler: `if request.method == 'OPTIONS'` answers without
\* calling the handler.
SkipsHandler(method) == method = "OPTIONS"

\* response.headers[...] = ...: the three assignments of middleware_handler.
WithCors(response) ==
    [response EXCEPT !.headers = @ \cup CorsHeaders]

\* A middleware_handler without its `return response`.
NoReturn(out) == NoResponse

\* middleware_handler after `await handler(request)`: a returned response
\* gets the headers; a raised exception passes through the three
\* assignments and aiohttp sends it as it is.
AfterHandler(out) == IF out.raised THEN out ELSE WithCors(out)

\* ------------------------------------------------------- the small routes

\* serve_html: index.html read, or the error text with status 500.
serve_html(readable) ==
    IF readable THEN TextResponse("<index.html>", 200, "text/html")
    ELSE TextResponse("[Errno 2] No such file or directory: 'index.html'",
                      500, "text/plain")

\* A liveness payload with another message.
pingStarting == JsonResponse([status |-> "ok", message |-> "Server is starting"], 200)

ping == JsonResponse([status |-> "ok", message |-> "Server is running"], 200)

test == JsonResponse([status |-> "success", message |-> "Test successful"], 200)

\* What a handler other than generate answers.
Handle(method, path, readable) ==
    CASE Resolve(method, path) = "/" -> serve_html(readable)
      [] Resolve(method, path) = "/ping" -> ping
      [] Resolve(method, path) = "/api/test" -> test
      [] Resolve(method, path) = "405" -> HttpException(405, "405: Method Not Allowed")
      [] OTHER -> HttpException(404, "404: Not Found")

\* ------------------------------------------------ generate: pure helpers

\* A handler without the outer except: the exception leaves generate and
\* aiohttp answers with its own plain-text 500.
Unhandled(msg) == HttpException(500, "500 Internal Server Error")

\* except Exception as e (outer): {"error": str(e)}, 500.
GeneralError(msg) == JsonResponse([error |-> <<msg>>], 500)

\* A handler without the inner except for this error: it leaves generate and
\* aiohttp answers with its own plain-text 500.
ApiErrorUncaught(msg) == HttpException(500, "500 Internal Server Error")

\* An inner except that forgets status=500.
ApiErrorOk(msg) == JsonResponse([error |-> <<"API request failed: ", msg>>], 200)

\* except Exception as api_error (inner): "API request failed: ...", 500.
ApiError(msg) == JsonResponse([error |-> <<"API request failed: ", msg>>], 500)

\* A lookup without the default: ART_STYLE_PROMPTS.get(art_style, '').
StylePromptNoFallback(art_style) ==
    IF art_style.type = "str" /\ art_style.val \in DOMAIN ART_STYLE_PROMPTS
    THEN ART_STYLE_PROMPTS[art_style.val]
    ELSE ""

\* ART_STYLE_PROMPTS.get(art_style, ART_STYLE_PROMPTS['pixel'])
StylePrompt(art_style) ==
    IF art_style.type = "str" /\ art_style.val \in DOMAIN ART_STYLE_PROMPTS
    THEN ART_STYLE_PROMPTS[art_style.val]
    ELSE ART_STYLE_PROMPTS["pixel"]

\* generated_name or idea
Subject(generated_name, idea) ==
    IF Falsy(generated_name) THEN idea.val ELSE generated_name.val

\* base_prompt, the f-string's fragments in order.
BasePrompt(generated_name, idea, style_prompt) ==
    <<"detailed cryptocurrency mascot logo of a ", Subject(generated_name, idea),
      ", ", style_prompt,
      ", centered composition, clean vectorized style, suitable for crypto token, professional logo design">>

Payload(base_prompt) ==
    [height |-> 512, width |-> 512, prompt |-> base_prompt,
     modelId |-> "6bef9f1b-29cb-40c7-b9df-32b51c1f67d3",
     negative_prompt |-> "text, watermark, logo, words, letters, signature, realistic, photographic, abstract shapes, blurry, low quality",
     num_images |-> 1, guidance_scale |-> 8, init_strength |-> "0.4"]

NoPayload == Payload(<<>>)

\* A validation that rejects only a missing idea: `if idea is None`.
IdeaIsNone(idea) == idea.type = "null"

\* if not idea
NoIdea(idea) == Falsy(idea)

\* The first segment of generate, from the body to the submission: the
\* response it returns at once, or "send" with the payload to submit.
Begin(body) ==
    LET data == body.data
        idea == Get(data, "idea", JNull)
        generated_name == Get(data, "generatedName", JStr(""))
        art_style == Get(data, "artStyle", JStr("pixel"))
    IN  IF body.parse = "invalid"
        THEN [kind |-> "return", payload |-> NoPayload,
              response |-> GeneralError("Expecting value: line 1 column 1 (char 0)")]
        ELSE IF body.parse = "array"
        THEN [kind |-> "return", payload |-> NoPayload,
              response |-> GeneralError("'list' object has no attribute 'get'")]
        ELSE IF NoIdea(idea)
        THEN [kind |-> "return", payload |-> NoPayload,
              response |-> JsonResponse([error |-> <<"No idea provided">>], 400)]
        ELSE IF Unhashable(art_style)
        THEN [kind |-> "return", payload |-> NoPayload,
              response |-> GeneralError("unhashable type: 'list'")]
        ELSE [kind |-> "send",
              payload |-> Payload(BasePrompt(generated_name, idea, StylePrompt(art_style))),
              response |-> NoResponse]

\* ---------------------------------------------------------- the remote API

\* What an outbound call comes back with: a transport error (the call
\* raises), or a response with a status and a body that parses as JSON or not.
TransportError == [error |-> TRUE, status |-> 0, parses |-> FALSE, body |-> EmptyObj]

Reply(status, parses, body) ==
    [error |-> FALSE, status |-> status, parses |-> parses, body |-> body]

NoReply == Reply(0, FALSE, EmptyObj)

\* The answers to POST {base}/generations; id is the job the remote creates.
SubmitReplies(id) ==
    {TransportError}
    \cup {Reply(s, FALSE, EmptyObj) : s \in {201, 429, 500}}
    \cup {Reply(200, FALSE, EmptyObj),
          Reply(200, TRUE, EmptyObj),
          Reply(200, TRUE, [sdGenerationJob |-> EmptyObj]),
          Reply(200, TRUE, [sdGenerationJob |-> [generationId |-> id]])}

\* The remote created a job for this submission.
Created(rep) ==
    /\ ~rep.error /\ rep.status = 200 /\ rep.parses
    /\ "sdGenerationJob" \in DOMAIN rep.body
    /\ "generationId" \in DOMAIN rep.body.sdGenerationJob

\* The url of image i of job id.
Url(id, i) == <<id, i>>

\* generated_images lists of job id: 0..MaxImages images, or one image
\* that has no url.
ImageLists(id) ==
    {[i \in 1..n |-> [url |-> Url(id, i)]] : n \in 0..MaxImages}
    \cup {<<EmptyObj>>}

\* The answers to GET {base}/generations/{id}.
StatusReplies(id) ==
    {TransportError, Reply(502, FALSE, EmptyObj),
     Reply(200, FALSE, EmptyObj),
     Reply(200, TRUE, EmptyObj),
     Reply(200, TRUE, [generations_by_pk |-> EmptyObj]),
     Reply(200, TRUE, [generations_by_pk |-> [status |-> "COMPLETE"]])}
    \cup {Reply(200, TRUE, [generations_by_pk |->
                               [status |-> st, generated_images |-> <<>>]]) :
              st \in {"PENDING", "FAILED"}}
    \cup {Reply(200, TRUE, [generations_by_pk |->
                               [status |-> "COMPLETE", generated_images |-> imgs]]) :
              imgs \in ImageLists(id)}

\* ------------------------------------------- generate: after the awaits

\* The outcome of a subscript that raises KeyError.
KeyError == -1

\* A lookup with .get() that yields no id instead of raising.
GenerationIdOrNone(body) ==
    IF "sdGenerationJob" \notin DOMAIN body THEN NoJob
    ELSE IF "generationId" \notin DOMAIN body.sdGenerationJob THEN NoJob
    ELSE body.sdGenerationJob.generationId

\* generation_data['sdGenerationJob']['generationId'] of a parsed body,
\* or KeyError when a key is missing.
GenerationIdOf(body) ==
    IF "sdGenerationJob" \notin DOMAIN body THEN KeyError
    ELSE IF "generationId" \notin DOMAIN body.sdGenerationJob THEN KeyError
    ELSE body.sdGenerationJob.generationId

\* The segment after the submission's answer: the response returned, or
\* "poll" with the generation id.
AfterSubmit(rep) ==
    IF rep.error
    THEN [kind |-> "return", id |-> NoJob,
          response |-> ApiError("Cannot connect to host")]
    ELSE IF rep.status # 200
    THEN [kind |-> "return", id |-> NoJob,
          response |-> JsonResponse(
              [error |-> <<"Failed to generate image: ", "<response_text>">>],
              rep.status)]
    ELSE IF ~rep.parses
    THEN [kind |-> "return", id |-> NoJob,
          response |-> ApiError("Expecting value: line 1 column 1 (char 0)")]
    ELSE IF GenerationIdOf(rep.body) = KeyError
    THEN [kind |-> "return", id |-> NoJob, response |-> ApiError("'sdGenerationJob'")]
    ELSE [kind |-> "poll", id |-> GenerationIdOf(rep.body), response |-> NoResponse]

\* generated_images[-1]
LastImage(images) == images[Len(images)]

\* generated_images[0]
FirstImage(images) == images[1]

\* A check that takes every status answer for a 200.
AnyStatus(rep) == TRUE

\* if check_response.status == 200
IsOk(rep) == rep.status = 200

\* A check that ends the poll loop on FAILED as well.
IsTerminal(status) == status \in {"COMPLETE", "FAILED"}

\* result['generations_by_pk']['status'] == 'COMPLETE'
IsComplete(status) == status = "COMPLETE"

\* The segment after a status answer: the response returned, or "sleep".
AfterStatus(rep) ==
    IF rep.error
    THEN [kind |-> "return", response |-> ApiError("Cannot connect to host")]
    ELSE IF ~IsOk(rep)
    THEN [kind |-> "sleep", response |-> NoResponse]
    ELSE IF ~rep.parses
    THEN [kind |-> "return",
          response |-> ApiError("Expecting value: line 1 column 1 (char 0)")]
    ELSE IF "generations_by_pk" \notin DOMAIN rep.body
    THEN [kind |-> "return", response |-> ApiError("'generations_by_pk'")]
    ELSE IF "status" \notin DOMAIN rep.body.generations_by_pk
    THEN [kind |-> "return", response |-> ApiError("'status'")]
    ELSE IF ~IsComplete(rep.body.generations_by_pk.status)
    THEN [kind |-> "sleep", response |-> NoResponse]
    ELSE IF "generated_images" \notin DOMAIN rep.body.generations_by_pk
    THEN [kind |-> "return", response |-> ApiError("'generated_images'")]
    ELSE IF Len(rep.body.generations_by_pk.generated_images) = 0
    THEN [kind |-> "return", response |-> ApiError("list index out of range")]
    ELSE IF "url" \notin DOMAIN FirstImage(rep.body.generations_by_pk.generated_images)
    THEN [kind |-> "return", response |-> ApiError("'url'")]
    ELSE [kind |-> "return",
          response |-> JsonResponse(
              [success |-> TRUE,
               imageUrl |-> FirstImage(rep.body.generations_by_pk.generated_images).url],
              200)]

\* return web.json_response({"error": "Timeout waiting for image"}, status=500)
Timeout == JsonResponse([error |-> <<"Timeout waiting for image">>], 500)

\* ------------------------------------------------------------------ state

VARIABLES
    pc,             \* where each request's coroutine is suspended
    req,            \* the inbound request: method and path
    data,           \* generate: the request body as parsed
    payload,        \* generate: the submission in flight
    response,       \* generate: the submission's answer
    generation_id,  \* generate: the job's id
    attempt,        \* generate: the index of the poll loop
    check_response, \* generate: the answer to the current status query
    resp,           \* the response sent to the caller
    loop,           \* the coroutine that occupies the event loop's thread
    jobs,           \* the remote API: the request that created each job
    posts,          \* submission POSTs each request has sent
    polls,          \* status queries each request has sent
    read            \* the job ids whose status each request has read

vars == <<pc, req, data, payload, response, generation_id, attempt,
          check_response, resp, loop, jobs, posts, polls, read>>

NoReq == [method |-> "", path |-> ""]

Init ==
    /\ pc = [r \in Reqs |-> "idle"]
    /\ req = [r \in Reqs |-> NoReq]
    /\ data = [r \in Reqs |-> NoBody]
    /\ payload = [r \in Reqs |-> NoPayload]
    /\ response = [r \in Reqs |-> NoReply]
    /\ generation_id = [r \in Reqs |-> NoJob]
    /\ attempt = [r \in Reqs |-> 0]
    /\ check_response = [r \in Reqs |-> NoReply]
    /\ resp = [r \in Reqs |-> NoResponse]
    /\ loop = Free
    /\ jobs = <<>>
    /\ posts = [r \in Reqs |-> 0]
    /\ polls = [r \in Reqs |-> 0]
    /\ read = [r \in Reqs |-> {}]

\* The event loop can run request r's coroutine.
Runnable(r) == loop = Free \/ loop = r

\* time.sleep(1): the sleeping request keeps the thread.
BlockingSleepOwner(r) == r

\* await web.asyncio.sleep(1): who occupies the event loop's thread while
\* request r sleeps.  The await gives the thread back.
SleepOwner(r) == Free

\* A module-level generation_id: every request polls the id stored last.
SharedJob(r) == Len(jobs)

\* The id request r polls: its own local generation_id.
JobOf(r) == generation_id[r]

\* A request that a handler other than generate answers, or that the
\* middleware answers itself, runs without a suspension point.
Serve(r) ==
    /\ pc[r] = "idle" /\ Runnable(r)
    /\ \E method \in Methods, path \in Paths, readable \in BOOLEAN :
          /\ SkipsHandler(method) \/ Resolve(method, path) # "/api/generate"
          /\ readable \/ Resolve(method, path) = "/"
          /\ req' = [req EXCEPT ![r] = [method |-> method, path |-> path]]
          /\ resp' = [resp EXCEPT ![r] =
                IF SkipsHandler(method) THEN WithCors(EmptyResponse)
                ELSE AfterHandler(Handle(method, path, readable))]
    /\ pc' = [pc EXCEPT ![r] = "done"]
    /\ loop' = Free
    /\ UNCHANGED <<data, payload, response, generation_id, attempt,
                   check_response, jobs, posts, polls, read>>

\* POST /api/generate up to the submission POST (or an early return).
Generate(r) ==
    /\ pc[r] = "idle" /\ Runnable(r)
    /\ ~SkipsHandler("POST") /\ Resolve("POST", "/api/generate") = "/api/generate"
    /\ \E body \in Bodies :
          LET out == Begin(body) IN
          /\ data' = [data EXCEPT ![r] = body]
          /\ IF out.kind = "return"
             THEN /\ resp' = [resp EXCEPT ![r] = AfterHandler(out.response)]
                  /\ pc' = [pc EXCEPT ![r] = "done"]
                  /\ UNCHANGED <<payload, posts>>
             ELSE /\ payload' = [payload EXCEPT ![r] = out.payload]
                  /\ posts' = [posts EXCEPT ![r] = @ + 1]
                  /\ pc' = [pc EXCEPT ![r] = "submit"]
                  /\ UNCHANGED resp
    /\ req' = [req EXCEPT ![r] = [method |-> "POST", path |-> "/api/generate"]]
    /\ loop' = Free
    /\ UNCHANGED <<response, generation_id, attempt, check_response, jobs,
                   polls, read>>

\* The submission's answer arrives: an error response, or the generation
\* id and the first status query.  No line after the submission reads the
\* body or the payload, and the model forgets them here.
SubmitReply(r) ==
    /\ pc[r] = "submit" /\ Runnable(r)
    /\ \E rep \in SubmitReplies(Len(jobs) + 1) :
          LET out == AfterSubmit(rep) IN
          /\ response' = [response EXCEPT ![r] = rep]
          /\ jobs' = IF Created(rep) THEN Append(jobs, r) ELSE jobs
          /\ IF out.kind = "return"
             THEN /\ resp' = [resp EXCEPT ![r] = AfterHandler(out.response)]
                  /\ pc' = [pc EXCEPT ![r] = "done"]
                  /\ UNCHANGED <<generation_id, polls>>
             ELSE /\ generation_id' = [generation_id EXCEPT ![r] = out.id]
                  /\ polls' = [polls EXCEPT ![r] = @ + 1]
                  /\ pc' = [pc EXCEPT ![r] = "poll"]
                  /\ UNCHANGED resp
    /\ data' = [data EXCEPT ![r] = NoBody]
    /\ payload' = [payload EXCEPT ![r] = NoPayload]
    /\ loop' = Free
    /\ UNCHANGED <<req, attempt, check_response, posts, read>>

\* The answer to a status query arrives: the success or error response,
\* or the one-second sleep.
StatusReply(r) ==
    /\ pc[r] = "poll" /\ Runnable(r)
    /\ \E rep \in StatusReplies(JobOf(r)) :
          LET out == AfterStatus(rep) IN
          /\ check_response' = [check_response EXCEPT ![r] = rep]
          /\ IF out.kind = "return"
             THEN /\ resp' = [resp EXCEPT ![r] = AfterHandler(out.response)]
                  /\ pc' = [pc EXCEPT ![r] = "done"]
                  /\ loop' = Free
             ELSE /\ pc' = [pc EXCEPT ![r] = "sleep"]
                  /\ loop' = SleepOwner(r)
                  /\ UNCHANGED resp
    /\ read' = [read EXCEPT ![r] = @ \cup {JobOf(r)}]
    /\ UNCHANGED <<req, data, payload, response, generation_id, attempt,
                   jobs, posts, polls>>

\* The sleep is over: the next status query, or the timeout response when
\* range(PollCeiling) is exhausted.
Wake(r) ==
    /\ pc[r] = "sleep" /\ Runnable(r)
    /\ IF attempt[r] + 1 < PollCeiling
       THEN /\ attempt' = [attempt EXCEPT ![r] = @ + 1]
            /\ check_response' = [check_response EXCEPT ![r] = NoReply]
            /\ polls' = [polls EXCEPT ![r] = @ + 1]
            /\ pc' = [pc EXCEPT ![r] = "poll"]
            /\ UNCHANGED resp
       ELSE /\ resp' = [resp EXCEPT ![r] = AfterHandler(Timeout)]
            /\ pc' = [pc EXCEPT ![r] = "done"]
            /\ UNCHANGED <<attempt, check_response, polls>>
    /\ loop' = Free
    /\ UNCHANGED <<req, data, payload, response, generation_id, jobs,
                   posts, read>>

\* The steps of request r.
Step(r) == Serve(r) \/ Generate(r) \/ SubmitReply(r) \/ StatusReply(r) \/ Wake(r)

Next == \E r \in Reqs : Step(r)

Spec == Init /\ [][Next]_vars

\* Every outbound call eventually returns or fails, and the event loop
\* resumes a coroutine whose sleep is over.
Fairness ==
    \A r \in Reqs :
        WF_vars(SubmitReply(r)) /\ WF_vars(StatusReply(r)) /\ WF_vars(Wake(r))

FairSpec == Spec /\ Fairness

\* ---------------------------------------------- two requests side by side

\* Requests 1 and 2 are two runs of generate against the same behaviour of
\* the remote API: their bodies differ in isRegeneration only, and every
\* outbound call of the one gets the answer the same call of the other
\* gets.  Each step applies the segments of generate to each request's own
\* state.  The bodies are kept to the end.
Pair == {1, 2}

\* The body d with isRegeneration set.
Regenerating(d) ==
    [k \in DOMAIN d \cup {"isRegeneration"} |->
        IF k = "isRegeneration" THEN JTrue ELSE d[k]]

PairBody(r, d) ==
    [parse |-> "object", data |-> IF r = 1 THEN d ELSE Regenerating(d)]

PairGenerate ==
    /\ \A r \in Pair : pc[r] = "idle" /\ Runnable(r)
    /\ ~SkipsHandler("POST") /\ Resolve("POST", "/api/generate") = "/api/generate"
    /\ \E d \in Objects :
          /\ "isRegeneration" \notin DOMAIN d
          /\ data' = [r \in Reqs |-> IF r \in Pair THEN PairBody(r, d) ELSE data[r]]
          /\ resp' = [r \in Reqs |->
                IF r \in Pair /\ Begin(PairBody(r, d)).kind = "return"
                THEN AfterHandler(Begin(PairBody(r, d)).response) ELSE resp[r]]
          /\ pc' = [r \in Reqs |->
                IF r \notin Pair THEN pc[r]
                ELSE IF Begin(PairBody(r, d)).kind = "return" THEN "done" ELSE "submit"]
          /\ payload' = [r \in Reqs |->
                IF r \in Pair /\ Begin(PairBody(r, d)).kind = "send"
                THEN Begin(PairBody(r, d)).payload ELSE payload[r]]
          /\ posts' = [r \in Reqs |->
                IF r \in Pair /\ Begin(PairBody(r, d)).kind = "send"
                THEN posts[r] + 1 ELSE posts[r]]
    /\ req' = [r \in Reqs |->
          IF r \in Pair THEN [method |-> "POST", path |-> "/api/generate"] ELSE req[r]]
    /\ loop' = Free
    /\ UNCHANGED <<response, generation_id, attempt, check_response, jobs,
                   polls, read>>

PairSubmitReply ==
    /\ \A r \in Pair : pc[r] = "submit" /\ Runnable(r)
    /\ \E rep \in SubmitReplies(Len(jobs) + 1) :
          LET out == AfterSubmit(rep) IN
          /\ response' = [r \in Reqs |-> IF r \in Pair THEN rep ELSE response[r]]
          /\ jobs' = IF Created(rep) THEN Append(jobs, 1) ELSE jobs
          /\ resp' = [r \in Reqs |->
                IF r \in Pair /\ out.kind = "return"
                THEN AfterHandler(out.response) ELSE resp[r]]
          /\ pc' = [r \in Reqs |->
                IF r \notin Pair THEN pc[r]
                ELSE IF out.kind = "return" THEN "done" ELSE "poll"]
          /\ generation_id' = [r \in Reqs |->
                IF r \in Pair /\ out.kind = "poll" THEN out.id ELSE generation_id[r]]
          /\ polls' = [r \in Reqs |->
                IF r \in Pair /\ out.kind = "poll" THEN polls[r] + 1 ELSE polls[r]]
    /\ payload' = [r \in Reqs |-> IF r \in Pair THEN NoPayload ELSE payload[r]]
    /\ loop' = Free
    /\ UNCHANGED <<req, data, attempt, check_response, posts, read>>

PairStatusReply ==
    /\ \A r \in Pair : pc[r] = "poll" /\ Runnable(r)
    /\ JobOf(1) = JobOf(2)
    /\ \E rep \in StatusReplies(JobOf(1)) :
          LET out == AfterStatus(rep) IN
          /\ check_response' = [r \in Reqs |->
                IF r \in Pair THEN rep ELSE check_response[r]]
          /\ resp' = [r \in Reqs |->
                IF r \in Pair /\ out.kind = "return"
                THEN AfterHandler(out.response) ELSE resp[r]]
          /\ pc' = [r \in Reqs |->
                IF r \notin Pair THEN pc[r]
                ELSE IF out.kind = "return" THEN "done" ELSE "sleep"]
          /\ loop' = IF out.kind = "return" THEN Free ELSE SleepOwner(1)
    /\ read' = [r \in Reqs |-> IF r \in Pair THEN read[r] \cup {JobOf(r)} ELSE read[r]]
    /\ UNCHANGED <<req, data, payload, response, generation_id, attempt,
                   jobs, posts, polls>>

PairWake ==
    /\ \A r \in Pair : pc[r] = "sleep" /\ loop = Free
    /\ attempt' = [r \in Reqs |->
          IF r \in Pair /\ attempt[r] + 1 < PollCeiling
          THEN attempt[r] + 1 ELSE attempt[r]]
    /\ check_response' = [r \in Reqs |->
          IF r \in Pair /\ attempt[r] + 1 < PollCeiling
          THEN NoReply ELSE check_response[r]]
    /\ polls' = [r \in Reqs |->
          IF r \in Pair /\ attempt[r] + 1 < PollCeiling
          THEN polls[r] + 1 ELSE polls[r]]
    /\ pc' = [r \in Reqs |->
          IF r \notin Pair THEN pc[r]
          ELSE IF attempt[r] + 1 < PollCeiling THEN "poll" ELSE "done"]
    /\ resp' = [r \in Reqs |->
          IF r \in Pair /\ ~(attempt[r] + 1 < PollCeiling)
          THEN AfterHandler(Timeout) ELSE resp[r]]
    /\ loop' = Free
    /\ UNCHANGED <<req, data, payload, response, generation_id, jobs,
                   posts, read>>

PairNext == PairGenerate \/ PairSubmitReply \/ PairStatusReply \/ PairWake

PairSpec == Init /\ [][PairNext]_vars

\* ------------------------------------------------------------ properties

IsGenerate(r) == req[r].method = "POST" /\ req[r].path = "/api/generate"

\* The response is a JSON error: a JSON body with an error member.
IsJsonError(response_) ==
    response_.ctype = "application/json" /\ "error" \in DOMAIN response_.json

\* A status answer with status 200 whose job status is COMPLETE.
ReachedComplete(rep) ==
    /\ ~rep.error /\ rep.status = 200 /\ rep.parses
    /\ "generations_by_pk" \in DOMAIN rep.body
    /\ "status" \in DOMAIN rep.body.generations_by_pk
    /\ rep.body.generations_by_pk.status = "COMPLETE"

\* A status answer that is a non-200 response, or a 200 response whose job
\* status is not COMPLETE.
PendingLike(rep) ==
    /\ ~rep.error /\ rep.status # 0
    /\ \/ rep.status # 200
       \/ /\ rep.parses
          /\ "generations_by_pk" \in DOMAIN rep.body
          /\ "status" \in DOMAIN rep.body.generations_by_pk
          /\ rep.body.generations_by_pk.status # "COMPLETE"

\* COMPLETE with a non-empty generated_images list of images with a url.
CompleteWithImages(rep) ==
    /\ ReachedComplete(rep)
    /\ "generated_images" \in DOMAIN rep.body.generations_by_pk
    /\ Len(rep.body.generations_by_pk.generated_images) > 0
    /\ \A i \in DOMAIN rep.body.generations_by_pk.generated_images :
          "url" \in DOMAIN rep.body.generations_by_pk.generated_images[i]

\* The jobs the remote API created for request r's submissions.
Owned(r) == {g \in 1..Len(jobs) : jobs[g] = r}

\* A request that has answered sends no status query afterwards and stays
\* answered.
QuietAfterDone ==
    \A r \in Reqs :
        pc[r] = "done" => pc'[r] = "done" /\ polls'[r] = polls[r] /\ resp'[r] = resp[r]

\* In the poll loop every earlier status answer was a non-200 response or
\* a 200 response that is not COMPLETE: anything else ended the request.
OnlyPendingBefore ==
    \A r \in Reqs :
        /\ pc[r] = "sleep" => PendingLike(check_response[r])
        /\ pc[r] = "poll" => check_response[r] = NoReply /\ polls[r] = attempt[r] + 1

\* C1: when the k-th status query (k in 1..30) is the first that returns
\* 200, COMPLETE and a non-empty generated_images list, the request answers
\* 200 {success: true, imageUrl} with the url of the first image of that
\* answer, after exactly k status queries, and sends no status query
\* afterwards.
C1_FirstCompleteSucceeds ==
    /\ [](\A r \in Reqs :
            CompleteWithImages(check_response[r]) =>
                /\ pc[r] = "done"
                /\ resp[r].status = 200
                /\ resp[r].json =
                      [success |-> TRUE,
                       imageUrl |->
                          check_response[r].body.generations_by_pk.generated_images[1].url]
                /\ polls[r] = attempt[r] + 1
                /\ polls[r] \in 1..30)
    /\ []OnlyPendingBefore
    /\ [][QuietAfterDone]_vars

\* C1 witness: a request answered with success at its fifth status query,
\* from an answer with two images.
C1_Witness ==
    \E r \in Reqs :
        /\ pc[r] = "done" /\ polls[r] = 5
        /\ CompleteWithImages(check_response[r])
        /\ Len(check_response[r].body.generations_by_pk.generated_images) = 2
        /\ "success" \in DOMAIN resp[r].json

\* C2 as stated: when the submission succeeded and no status query reached
\* COMPLETE, the request answers with the timeout error after exactly 30
\* status queries.
C2_Original ==
    \A r \in Reqs :
        (pc[r] = "done" /\ Created(response[r]) /\ ~ReachedComplete(check_response[r])) =>
            /\ resp[r].status = 500
            /\ resp[r].json = [error |-> <<"Timeout waiting for image">>]
            /\ polls[r] = 30

\* C2 amended: when the submission succeeded and every status query
\* returned a non-200 response or a 200 response that is not COMPLETE, the
\* request answers 500 {error: "Timeout waiting for image"} after exactly
\* 30 status queries; the timeout is never answered after fewer, and no
\* request sends a 31st.
C2_TimeoutAfterThirty ==
    /\ [](\A r \in Reqs :
            /\ (pc[r] = "done" /\ Created(response[r]) /\ PendingLike(check_response[r])) =>
                    /\ resp[r].status = 500
                    /\ resp[r].json = [error |-> <<"Timeout waiting for image">>]
                    /\ polls[r] = 30
            /\ resp[r].json = [error |-> <<"Timeout waiting for image">>] => polls[r] = 30
            /\ polls[r] <= 30)
    /\ []OnlyPendingBefore
    /\ [][QuietAfterDone]_vars

\* C2 witness: a request answered with the timeout error after 30 queries.
C2_Witness ==
    \E r \in Reqs :
        /\ pc[r] = "done" /\ polls[r] = 30 /\ PendingLike(check_response[r])
        /\ resp[r].json = [error |-> <<"Timeout waiting for image">>]

\* C3: a POST /api/generate request whose JSON object has no idea member, or
\* an empty idea, is answered 400 {"error": "No idea provided"} and sends
\* neither the submission POST nor a status query, whatever its other
\* members are.
C3_NoIdeaRejected ==
    \A r \in Reqs :
        (/\ IsGenerate(r) /\ data[r].parse = "object"
         /\ Falsy(Get(data[r].data, "idea", JNull))) =>
            /\ pc[r] = "done"
            /\ resp[r].status = 400
            /\ resp[r].ctype = "application/json"
            /\ resp[r].json = [error |-> <<"No idea provided">>]
            /\ posts[r] = 0 /\ polls[r] = 0 /\ read[r] = {}

\* C3 witness: a request with an empty idea and an artStyle that is no
\* string has been answered 400.
C3_Witness ==
    \E r \in Reqs :
        /\ pc[r] = "done" /\ IsGenerate(r) /\ data[r].parse = "object"
        /\ "idea" \in DOMAIN data[r].data /\ data[r].data.idea = JStr("")
        /\ "artStyle" \in DOMAIN data[r].data /\ data[r].data.artStyle = JEmptyList
        /\ resp[r].status = 400

\* C4: when the submission POST is answered with status 200 and a body
\* that lacks sdGenerationJob.generationId, the request is answered 500
\* with a JSON error body and sends no status query.
C4_NoIdNoPoll ==
    \A r \in Reqs :
        (/\ ~response[r].error /\ response[r].status = 200
         /\ ~Created(response[r])) =>
            /\ pc[r] = "done"
            /\ resp[r].status = 500
            /\ IsJsonError(resp[r])
            /\ polls[r] = 0 /\ read[r] = {}

\* C4 witness: a submission answered 200 with a JSON body that has
\* sdGenerationJob but no generationId in it.
C4_Witness ==
    \E r \in Reqs :
        /\ pc[r] = "done" /\ response[r].status = 200 /\ response[r].parses
        /\ "sdGenerationJob" \in DOMAIN response[r].body
        /\ ~Created(response[r])
        /\ resp[r].status = 500

\* C5: when the submission POST is answered with any non-200 status, the
\* request is answered with status 500 and a JSON body {error: string},
\* whatever the remote status was.
C5_RemoteFailureIs500 ==
    \A r \in Reqs :
        (/\ ~response[r].error /\ response[r].status \notin {0, 200}) =>
            /\ pc[r] = "done"
            /\ resp[r].status = 500
            /\ IsJsonError(resp[r])

\* C6: every POST /api/generate request that ends in a failure (body not
\* JSON or no object, validation, transport error or non-200 on submission,
\* malformed submission body, exception in a status query, poll ceiling)
\* is answered with a JSON response that has an error member and a non-200
\* status, and no exception leaves the generate handler: every answer of
\* generate is a returned JSON response, either the 200 success or such an
\* error.
C6_FailuresAreJsonErrors ==
    \A r \in Reqs :
        (IsGenerate(r) /\ pc[r] = "done") =>
            /\ ~resp[r].raised
            /\ resp[r].ctype = "application/json"
            /\ \/ /\ DOMAIN resp[r].json = {"success", "imageUrl"}
                  /\ resp[r].status = 200
                  /\ CompleteWithImages(check_response[r])
               \/ /\ "error" \in DOMAIN resp[r].json
                  /\ resp[r].status # 200

\* C6 witness: one request failed on a body that is not JSON and another
\* on a status query that raised.
C6_Witness ==
    \E r, q \in Reqs :
        /\ pc[r] = "done" /\ IsGenerate(r) /\ data[r].parse = "invalid"
        /\ IsJsonError(resp[r]) /\ resp[r].status = 500
        /\ pc[q] = "done" /\ IsGenerate(q) /\ check_response[q].error
        /\ IsJsonError(resp[q]) /\ resp[q].status = 500

\* C7: every response the server sends, for any method, route and outcome
\* (200, 400, 500, 404, 405), carries the three CORS headers.
C7_EveryResponseHasCors ==
    \A r \in Reqs : pc[r] = "done" => CorsHeaders \subseteq resp[r].headers

\* C8: an OPTIONS request to any route is answered 200 with an empty body
\* and the three CORS headers, and runs no route handler: it sends nothing
\* to the remote API.
C8_OptionsAnsweredByMiddleware ==
    \A r \in Reqs :
        req[r].method = "OPTIONS" =>
            /\ pc[r] = "done"
            /\ resp[r].status = 200
            /\ resp[r].text = "" /\ DOMAIN resp[r].json = {}
            /\ CorsHeaders \subseteq resp[r].headers
            /\ data[r] = NoBody
            /\ posts[r] = 0 /\ polls[r] = 0 /\ read[r] = {}

\* C8 witness: OPTIONS /api/generate and OPTIONS on an unregistered path
\* have both been answered.
C8_Witness ==
    \E r, q \in Reqs :
        /\ pc[r] = "done" /\ req[r] = [method |-> "OPTIONS", path |-> "/api/generate"]
        /\ pc[q] = "done" /\ req[q] = [method |-> "OPTIONS", path |-> "/nope"]

\* C9: while a generate request a waits for the submission's answer, for a
\* status answer or between two status queries, every other request b that
\* has not been answered can take its next step (start, or continue up to
\* its response) in a step that leaves a waiting where it was.
C9_PollLoopDoesNotBlock ==
    \A a, b \in Reqs :
        (a # b /\ pc[a] \in {"submit", "poll", "sleep"} /\ pc[b] # "done") =>
            ENABLED (Step(b) /\ pc'[a] = pc[a] /\ attempt'[a] = attempt[a])

\* C9 witness: b was answered by /ping, and another b by generate after
\* its own poll loop, while a is asleep between two status queries.
C9_Witness ==
    \E a, b \in Reqs :
        /\ a # b /\ pc[a] = "sleep" /\ attempt[a] = 0
        /\ pc[b] = "done" /\ IsGenerate(b) /\ polls[b] = 3
        /\ generation_id[a] < generation_id[b]

\* C10: under every interleaving each generate request sends at most one
\* submission and owns exactly one job once its submission has returned an
\* id, reads the status of that job only, and answers only with an image
\* url of that job; no two requests poll the same job.
C10_JobsAreNotShared ==
    \A r \in Reqs :
        /\ posts[r] <= 1
        /\ Cardinality(Owned(r)) <= posts[r]
        /\ generation_id[r] # NoJob => Owned(r) = {generation_id[r]}
        /\ pc[r] \in {"poll", "sleep"} => generation_id[r] # NoJob
        /\ read[r] \subseteq Owned(r)
        /\ "imageUrl" \in DOMAIN resp[r].json =>
               resp[r].json.imageUrl[1] \in Owned(r)
        /\ \A q \in Reqs :
               (q # r /\ generation_id[r] # NoJob) => generation_id[q] # generation_id[r]

\* C10 witness: two requests polled at the same time and the one that
\* submitted second was answered first, each with an image of its own job.
C10_Witness ==
    \E r, q \in Reqs :
        /\ pc[r] = "done" /\ pc[q] = "done"
        /\ generation_id[r] = 1 /\ generation_id[q] = 2
        /\ polls[r] = 3 /\ polls[q] = 2
        /\ "imageUrl" \in DOMAIN resp[r].json /\ resp[r].json.imageUrl = Url(1, 1)
        /\ "imageUrl" \in DOMAIN resp[q].json /\ resp[q].json.imageUrl = Url(2, 1)

\* The text contains the fragment.
Contains(text, fragment) == \E i \in DOMAIN text : text[i] = fragment

\* C11: the prompt of every submission in flight contains the descriptor of
\* the request's artStyle when that is one of the six keys of
\* ART_STYLE_PROMPTS, and the "pixel" descriptor when an artStyle is
\* supplied that is not one of them; it contains no other descriptor.
C11_StyleFallsBackToPixel ==
    \A r \in Reqs :
        (pc[r] = "submit" /\ "artStyle" \in DOMAIN data[r].data) =>
            LET style == data[r].data.artStyle
                key == IF style.type = "str" /\ style.val \in DOMAIN ART_STYLE_PROMPTS
                       THEN style.val ELSE "pixel"
            IN  /\ Contains(payload[r].prompt, ART_STYLE_PROMPTS[key])
                /\ \A k \in DOMAIN ART_STYLE_PROMPTS :
                       Contains(payload[r].prompt, ART_STYLE_PROMPTS[k]) => k = key

\* C11 witness: one submission in flight with an unknown artStyle and one
\* with the key "3d".
C11_Witness ==
    \E r, q \in Reqs :
        /\ pc[r] = "submit" /\ "artStyle" \in DOMAIN data[r].data
        /\ data[r].data.artStyle = JStr("vaporwave")
        /\ Contains(payload[r].prompt, ART_STYLE_PROMPTS["pixel"])
        /\ pc[q] = "submit" /\ "artStyle" \in DOMAIN data[q].data
        /\ data[q].data.artStyle = JStr("3d")
        /\ Contains(payload[q].prompt, ART_STYLE_PROMPTS["3d"])

IsPing(r) == req[r].method = "GET" /\ req[r].path = "/ping"

\* C12: every GET /ping is answered 200 with the JSON payload
\* {"status": "ok", "message": "Server is running"}, in every reachable
\* state, whatever the other requests are or were doing; and GET /ping can
\* be answered so in every state in which a request is yet to arrive.
C12_PingIsFixed ==
    \A r \in Reqs :
        /\ (IsPing(r) /\ pc[r] = "done") =>
              /\ resp[r].status = 200
              /\ resp[r].ctype = "application/json"
              /\ resp[r].json = [status |-> "ok", message |-> "Server is running"]
        /\ pc[r] = "idle" =>
              ENABLED (/\ Serve(r) /\ req'[r] = [method |-> "GET", path |-> "/ping"]
                       /\ resp'[r].status = 200
                       /\ resp'[r].json = [status |-> "ok", message |-> "Server is running"])

\* C12 witness: /ping has been answered while a generate request is asleep
\* in the eighth iteration of its poll loop.
C12_Witness ==
    \E r, q \in Reqs :
        /\ r # q /\ IsPing(r) /\ pc[r] = "done" /\ resp[r].status = 200
        /\ IsGenerate(q) /\ pc[q] = "sleep" /\ attempt[q] = 7

\* C13: a request sends at most one submission POST, and a submission that
\* failed (transport error, non-200 status, or a 200 body without a
\* generation id) ends the request with no status query and no second POST.
C13_OneSubmissionNoRetry ==
    \A r \in Reqs :
        /\ posts[r] <= 1
        /\ pc[r] = "submit" => posts[r] = 1 /\ polls[r] = 0
        /\ (response[r] # NoReply /\ ~Created(response[r])) =>
              /\ pc[r] = "done"
              /\ IsJsonError(resp[r])
              /\ posts[r] = 1 /\ polls[r] = 0 /\ read[r] = {}
              /\ Owned(r) = {}

\* C13 witness: one request's submission raised a transport error and
\* another's was answered 500; both have ended.
C13_Witness ==
    \E r, q \in Reqs :
        /\ pc[r] = "done" /\ response[r].error /\ posts[r] = 1
        /\ pc[q] = "done" /\ ~response[q].error /\ response[q].status = 500
        /\ posts[q] = 1

\* A status answer that is a response with a status other than 200.
NonOk(rep) == ~rep.error /\ rep.status \notin {0, 200}

\* A 200 status answer whose job status is FAILED.
ReportsFailed(rep) ==
    /\ ~rep.error /\ rep.status = 200 /\ rep.parses
    /\ "generations_by_pk" \in DOMAIN rep.body
    /\ "status" \in DOMAIN rep.body.generations_by_pk
    /\ rep.body.generations_by_pk.status = "FAILED"

\* A status query that failed: it raised, or returned 200 with a body that
\* is not JSON or lacks generations_by_pk or its status.
FailedQuery(rep) ==
    \/ rep.error
    \/ /\ rep.status = 200
       /\ \/ ~rep.parses
          \/ "generations_by_pk" \notin DOMAIN rep.body
          \/ "status" \notin DOMAIN rep.body.generations_by_pk

\* COMPLETE with a generated_images list that is empty.
CompleteWithoutImages(rep) ==
    /\ ReachedComplete(rep)
    /\ "generated_images" \in DOMAIN rep.body.generations_by_pk
    /\ Len(rep.body.generations_by_pk.generated_images) = 0

\* The step request r takes out of its sleep: the next status query when
\* fewer than 30 have been sent, the timeout response otherwise.
NextQueryOrTimeout(r) ==
    IF polls[r] < 30
    THEN /\ pc'[r] = "poll" /\ polls'[r] = polls[r] + 1 /\ resp'[r] = NoResponse
    ELSE /\ pc'[r] = "done" /\ polls'[r] = polls[r]
         /\ resp'[r].status = 500
         /\ resp'[r].json = [error |-> <<"Timeout waiting for image">>]

\* C14: a status query answered with a non-200 response does not end the
\* request: the request sleeps, the query counts as one of its at most 30,
\* and its next step is the next status query when fewer than 30 have been
\* sent (the timeout response after the 30th).
C14_NonOkIsNoOp ==
    /\ [](\A r \in Reqs :
            NonOk(check_response[r]) =>
                /\ polls[r] = attempt[r] + 1 /\ polls[r] <= 30
                /\ \/ pc[r] = "sleep" /\ resp[r] = NoResponse
                   \/ /\ pc[r] = "done" /\ polls[r] = 30
                      /\ resp[r].json = [error |-> <<"Timeout waiting for image">>])
    /\ [][\A r \in Reqs :
            (NonOk(check_response[r]) /\ pc[r] = "sleep" /\ pc'[r] # "sleep") =>
                NextQueryOrTimeout(r)]_vars

\* C14 witness: a request is asleep after its third status query was
\* answered with a non-200 response, and its wake-up sends the fourth.
C14_Witness ==
    \E r \in Reqs :
        /\ pc[r] = "sleep" /\ polls[r] = 3 /\ NonOk(check_response[r])
        /\ ENABLED (Wake(r) /\ pc'[r] = "poll" /\ polls'[r] = 4)

\* C15: a status query answered 200, COMPLETE, with an empty
\* generated_images list ends the request at once with a 500 JSON error:
\* no success response, no exception leaving the handler, and no status
\* query afterwards.
C15_EmptyImagesIsFatal ==
    /\ [](\A r \in Reqs :
            CompleteWithoutImages(check_response[r]) =>
                /\ pc[r] = "done"
                /\ resp[r].status = 500
                /\ IsJsonError(resp[r])
                /\ "success" \notin DOMAIN resp[r].json
                /\ ~resp[r].raised
                /\ polls[r] = attempt[r] + 1)
    /\ [][QuietAfterDone]_vars

\* C15 witness: the second status query was answered COMPLETE with no
\* image and the request has ended with status 500.
C15_Witness ==
    \E r \in Reqs :
        /\ CompleteWithoutImages(check_response[r]) /\ polls[r] = 2
        /\ pc[r] = "done" /\ resp[r].status = 500

\* C16: a status query that raises a transport error, or returns 200 with
\* a body that is not JSON or lacks generations_by_pk or its status, ends
\* the request at that attempt with a 500 JSON error, and no status query
\* follows.
C16_FailedQueryAborts ==
    /\ [](\A r \in Reqs :
            (check_response[r] # NoReply /\ FailedQuery(check_response[r])) =>
                /\ pc[r] = "done"
                /\ resp[r].status = 500
                /\ IsJsonError(resp[r])
                /\ polls[r] = attempt[r] + 1)
    /\ [][QuietAfterDone]_vars

\* C16 witness: one request ended at its third status query on a transport
\* error, another at its first on a body without generations_by_pk.
C16_Witness ==
    \E r, q \in Reqs :
        /\ pc[r] = "done" /\ check_response[r].error /\ polls[r] = 3
        /\ resp[r].status = 500
        /\ pc[q] = "done" /\ check_response[q].parses
        /\ "generations_by_pk" \notin DOMAIN check_response[q].body
        /\ check_response[q].status = 200 /\ polls[q] = 1
        /\ resp[q].status = 500

\* C18: a 200 status answer whose job status is FAILED is handled like a
\* pending one: the request does not end at that attempt but sleeps and
\* polls on, so it ends with the timeout error only after its 30th query.
C18_FailedIsPolledOn ==
    \A r \in Reqs :
        ReportsFailed(check_response[r]) =>
            /\ polls[r] = attempt[r] + 1
            /\ \/ pc[r] = "sleep" /\ resp[r] = NoResponse
               \/ /\ pc[r] = "done" /\ polls[r] = 30
                  /\ resp[r].status = 500
                  /\ resp[r].json = [error |-> <<"Timeout waiting for image">>]

\* C18 witness: a request whose 30th status answer was FAILED has ended
\* with the timeout error.
C18_Witness ==
    \E r \in Reqs :
        /\ ReportsFailed(check_response[r]) /\ pc[r] = "done" /\ polls[r] = 30
        /\ resp[r].json = [error |-> <<"Timeout waiting for image">>]

\* C17: provided every outbound call eventually returns or fails, every
\* accepted POST /api/generate request eventually gets its response (a
\* request that has left "idle" never returns to it, so from some point on
\* it is answered for good), gets exactly one (a response sent is never
\* replaced), and sends at most 30 status queries whatever the remote API
\* answers.
C17_GenerateTerminates ==
    /\ \A r \in Reqs : <>[](pc[r] \in {"idle", "done"})
    /\ [](\A r \in Reqs :
            /\ polls[r] <= 30
            /\ pc[r] = "done" <=> resp[r] # NoResponse)
    /\ [][QuietAfterDone]_vars

\* C17 witness: a request has its response after 30 status queries.
C17_Witness ==
    \E r \in Reqs :
        /\ IsGenerate(r) /\ pc[r] = "done" /\ polls[r] = 30
        /\ resp[r] # NoResponse /\ Created(response[r])

\* C19: a response with a success member is the 200 response of a POST
\* /api/generate request whose submission was answered 200 with a
\* generation id and whose last status query was answered 200 COMPLETE
\* with an image; and a submission is only ever sent for a body whose idea
\* is not empty.  No other path (other routes, OPTIONS, errors) yields a
\* success member.
C19_SuccessOnlyAfterComplete ==
    /\ [](\A r \in Reqs :
            "success" \in DOMAIN resp[r].json =>
                /\ IsGenerate(r) /\ pc[r] = "done"
                /\ resp[r].status = 200
                /\ posts[r] = 1
                /\ Created(response[r]) /\ generation_id[r] \in Owned(r)
                /\ polls[r] >= 1
                /\ CompleteWithImages(check_response[r]))
    /\ [][\A r \in Reqs :
            posts'[r] # posts[r] =>
                /\ data'[r].parse = "object"
                /\ "idea" \in DOMAIN data'[r].data
                /\ ~Falsy(data'[r].data.idea)]_vars

\* C19 witness: a request answered with success.
C19_Witness ==
    \E r \in Reqs :
        /\ "success" \in DOMAIN resp[r].json /\ resp[r].json.success
        /\ pc[r] = "done" /\ polls[r] = 4

\* C20: two POST /api/generate requests that differ in isRegeneration
\* only and run against the same behaviour of the remote API are in the
\* same place at every step: the same submission payload, the same status
\* queries (number and job id) and the same response.
C20_IsRegenerationHasNoEffect ==
    /\ pc[1] = pc[2]
    /\ payload[1] = payload[2]
    /\ posts[1] = posts[2] /\ polls[1] = polls[2] /\ read[1] = read[2]
    /\ generation_id[1] = generation_id[2] /\ attempt[1] = attempt[2]
    /\ response[1] = response[2] /\ check_response[1] = check_response[2]
    /\ resp[1] = resp[2]

\* C20 witness: the two requests, one with isRegeneration and one
\* without, have both been answered with success after three queries.
C20_Witness ==
    /\ "isRegeneration" \notin DOMAIN data[1].data
    /\ "isRegeneration" \in DOMAIN data[2].data
    /\ "generatedName" \in DOMAIN data[2].data
    /\ pc[2] = "done" /\ polls[2] = 3
    /\ "success" \in DOMAIN resp[2].json

====
